---- MODULE Spec2Model ----
(***************************************************************************)
(* A model of the Uno game engine of src/uno.py: the card set, the         *)
(* playability rule, the reversible player cycle and UnoGame.play.         *)
(*                                                                         *)
(* The source is in the middle of a rename (string constants to enums,     *)
(* card_type to type).  The model follows the logic of the code with the   *)
(* dangling names resolved to the only definitions the file offers:        *)
(*   - COLORS, NUMBERS, COLOR_CARD_TYPES, BLACK_CARD_TYPES are the lists   *)
(*     of lines 7-13, which _create_deck (lines 221-224) builds from;      *)
(*   - played_card.card_type (line 296) is the field UnoCard.type.         *)
(* Every other behaviour is the code's as written: playable compares the   *)
(* intrinsic colour of the top card, hand[card] follows Python list        *)
(* indexing, deck.pop(0) in a comprehension drops what it popped when it   *)
(* raises, the draw branch returns before the game-over test.              *)
(*                                                                         *)
(* A card is the position 1..108 of its object in the list _create_deck    *)
(* builds, so that two cards of the same colour and type stay distinct.    *)
(*                                                                         *)
(* Four specifications share the variables: Spec (games of 2 to 15         *)
(* players under calls of play), SpecLong (one 2-player game followed      *)
(* until both hands can be shed), SpecNew (the constructor on its own) and *)
(* SpecCycle (a ReversibleCycle on its own).                               *)
(***************************************************************************)
EXTENDS Integers, Sequences, FiniteSets, TLC

VARIABLES
    players,          \* len(self.players), fixed by the constructor
    deck,             \* self.deck: list of cards, last element = current card
    hands,            \* hands[p] = self.players[p].hand, p in 0..players-1
    _pos,             \* ReversibleCycle._pos
    _reverse,         \* ReversibleCycle._reverse
    _current_player,  \* index of UnoGame._current_player in self.players
    _winner,          \* index of UnoGame._winner, or None
    temp_color,       \* the temp_color attribute of the cards that have one
    plays,            \* number of play calls so far that moved a card to the deck
    draws,            \* number of draw moves so far that took a card
    last              \* the last call: its arguments and how it ended

vars == <<players, deck, hands, _pos, _reverse, _current_player, _winner,
          temp_color, plays, draws, last>>

\* Python's None where an int is expected (a player or card index).
None == -1000
\* Python's None where a colour is expected (new_color omitted).
NoColor == "None"

\* Bounds: the card plays and the draw moves of one behaviour.
MaxPlays == 7
MaxDraws == 1

\* The long game is followed for MaxPlaysLong card plays and MaxDrawsLong
\* draw moves: enough for both of its players to shed all 7 cards.
MaxPlaysLong == 14
MaxDrawsLong == 3

\* UnoGame is constructed with player counts up to MaxOutside below 2 and
\* above 15.
MaxOutside == 2

\* A ReversibleCycle on its own has at most MaxItems items and is called at
\* most MaxNexts times for its next item and MaxReverses times to reverse.
MaxItems == 4
MaxNexts == 9
MaxReverses == 3

----------------------------------------------------------------------------
\* The card set (lines 7-13 and 216-224).

COLORS == <<"red", "yellow", "green", "blue">>
NUMBERS == <<"0", "1", "2", "3", "4", "5", "6", "7", "8", "9",
             "1", "2", "3", "4", "5", "6", "7", "8", "9">>
SPECIAL_CARD_TYPES == <<"skip", "reverse", "+2">>
COLOR_CARD_TYPES == NUMBERS \o SPECIAL_CARD_TYPES \o SPECIAL_CARD_TYPES
BLACK_CARD_TYPES == <<"wildcard", "+4">>

\* chain(product(COLORS, COLOR_CARD_TYPES), product(repeat('black', 4), BLACK_CARD_TYPES))
all_cards ==
    LET nc == Len(COLORS) * Len(COLOR_CARD_TYPES)
        nb == 4 * Len(BLACK_CARD_TYPES)
    IN  [i \in 1..(nc + nb) |->
            IF i <= nc
            THEN [color |-> COLORS[((i - 1) \div Len(COLOR_CARD_TYPES)) + 1],
                  type  |-> COLOR_CARD_TYPES[((i - 1) % Len(COLOR_CARD_TYPES)) + 1]]
            ELSE [color |-> "black",
                  type  |-> BLACK_CARD_TYPES[((i - nc - 1) % Len(BLACK_CARD_TYPES)) + 1]]]

Cards == DOMAIN all_cards

CardColor(c) == all_cards[c].color
CardType(c) == all_cards[c].type

Reversed(s) == [i \in 1..Len(s) |-> s[Len(s) + 1 - i]]

Range(s) == {s[i] : i \in DOMAIN s}

----------------------------------------------------------------------------
\* playable with the comparison dropped: any card goes on any card
playable_any(self, other) == TRUE

\* UnoCard.playable (lines 127-136): self is the card on top, other the
\* candidate.  The colour compared is the card's own colour field.
playable(self, other) ==
    \/ CardColor(self) = CardColor(other)
    \/ CardType(self) = CardType(other)
    \/ CardColor(other) = "black"

----------------------------------------------------------------------------
\* ReversibleCycle (lines 360-388).

\* a step that is forward whatever the direction
_delta_forward(rev) == 1

\* _delta (lines 372-374)
_delta(rev) == IF rev THEN -1 ELSE 1

\* the pos setter (lines 380-382): value % len(self._items)
set_pos(value, n) == value % n

\* a first call that starts at item 0 whatever the direction
cycle_next_from_0(pos, rev, n) ==
    IF pos = None
    THEN set_pos(0, n)
    ELSE set_pos(pos + _delta(rev), n)

\* __next__ (lines 365-370): the new position, which is also the item returned
cycle_next(pos, rev, n) ==
    IF pos = None
    THEN set_pos(IF rev THEN -1 ELSE 0, n)
    ELSE set_pos(pos + _delta(rev), n)

\* a reverse that leaves the direction as it was
cycle_reverse_noop(rev) == rev

\* reverse (lines 384-388)
cycle_reverse(rev) == ~rev

----------------------------------------------------------------------------
\* UnoGame helpers.

\* is_active that never sees an empty hand
is_active_always(hs) == TRUE

\* is_active (lines 242-244)
is_active(hs) == \A p \in DOMAIN hs : Len(hs[p]) > 0

\* current_card (lines 238-240); only used where the deck is non-empty
current_card(dk) == dk[Len(dk)]

\* hand[card] and hand.pop(card) (lines 277, 292): Python list indexing,
\* where a negative index counts from the end of the list.
index_ok(hand, card) == -Len(hand) <= card /\ card < Len(hand)
index_of(hand, card) == IF card < 0 THEN Len(hand) + card + 1 ELSE card + 1
hand_pop(hand, card) ==
    LET k == index_of(hand, card)
    IN  SubSeq(hand, 1, k - 1) \o SubSeq(hand, k + 1, Len(hand))

\* the colour check left out
color_unchecked(new_color) == TRUE

\* new_color in COLORS (line 285)
color_ok(new_color) == new_color \in Range(COLORS)

\* _pick_up (lines 326-335): [self.deck.pop(0) for i in range(n)] pops one
\* card at a time from the front; on an empty deck pop raises IndexError and
\* the cards popped so far are in no list any more.
pick_up_ok(dk, n) == Len(dk) >= n
pick_up_deck(dk, n) == IF Len(dk) >= n THEN SubSeq(dk, n + 1, Len(dk)) ELSE <<>>
pick_up_hand(hand, dk, n) == IF Len(dk) >= n THEN hand \o SubSeq(dk, 1, n) ELSE hand

\* a +2 that gives one card
penalty_one_short(card_type) ==
    CASE card_type = "+4" -> 4
      [] card_type = "+2" -> 1
      [] OTHER -> 0

\* the number of cards the victim of a played card picks up (lines 299-308)
penalty(card_type) ==
    CASE card_type = "+4" -> 4
      [] card_type = "+2" -> 2
      [] OTHER -> 0

\* a Skip whose advance is forgotten
effect_advances_no_skip(card_type) == card_type \in {"+4", "+2"}

\* whether the played card's effect advances the cycle once (lines 299-308)
effect_advances(card_type) == card_type \in {"+4", "skip", "+2"}

----------------------------------------------------------------------------
\* UnoGame.__init__ (lines 197-208).

\* _create_deck(random=False) (lines 228-229): list(reversed(deck))
unshuffled_deck == Reversed([i \in Cards |-> i])

\* _deal_hand for the players in turn (lines 203-205, 231-236): each hand is 7
\* pops from the end of the deck; hand p is the p-th group of 7.
deal_hand(dk, p) == [j \in 1..7 |-> dk[Len(dk) - 7 * p - (j - 1)]]
deal_rest(dk, n) == SubSeq(dk, 1, Len(dk) - 7 * n)

\* a test of the player count that lets a single player through
players_ok_from_1(n) == 1 <= n /\ n <= 15

\* the checks of lines 198-201 on the player count
players_ok(n) == 2 <= n /\ n <= 15

\* _create_deck(random=True) (lines 225-227): shuffle leaves any order of the
\* 108 cards.  The model starts from the orders below, each written as the
\* cards fixed at some places of the dealing order and the other cards, in
\* the order of all_cards, at the places left.  Place k of the dealing order
\* is the k-th card popped from the end of the deck: places 1..7 are the hand
\* of player 0, 8..14 the hand of player 1, place 7n+1 the first current card
\* of an n-player game, and place 108 the first card a draw takes.
the_card(color, type, copy) ==
    LET S == {c \in Cards : CardColor(c) = color /\ CardType(c) = type}
    IN  CHOOSE c \in S : Cardinality({x \in S : x <= c}) = copy

shuffled_deck(fixed) ==
    LET places == Cards \ DOMAIN fixed
        rest == Cards \ {fixed[k] : k \in DOMAIN fixed}
        nth(r) == CHOOSE c \in rest : Cardinality({x \in rest : x <= c}) = r
        dealing == [k \in Cards |->
                       IF k \in DOMAIN fixed THEN fixed[k]
                       ELSE nth(Cardinality({j \in places : j <= k}))]
    IN  Reversed(dealing)

\* seven cards as the hand of player p, one card at place k, and the places
\* fixed by several of these together
hand_at(p, cards) == [k \in (7 * p + 1)..(7 * p + 7) |-> cards[k - 7 * p]]
card_at(k, c) == [j \in {k} |-> c]
merge_all(fs) ==
    [k \in UNION {DOMAIN fs[i] : i \in DOMAIN fs} |->
        fs[CHOOSE i \in DOMAIN fs : k \in DOMAIN fs[i]][k]]

\* Two players; player 0 can shed the whole hand in one run of turns (a Skip
\* or +2 played by one of two players gives the turn back) and ends on a
\* number card; player 1 can do the same after a draw of player 0 and ends
\* on a Skip.
deck_A ==
    shuffled_deck(merge_all(<<
        hand_at(0, <<the_card("yellow", "skip", 1), the_card("green", "skip", 1),
                     the_card("green", "+2", 1), the_card("blue", "+2", 1),
                     the_card("blue", "skip", 1), the_card("red", "skip", 1),
                     the_card("red", "3", 1)>>),
        hand_at(1, <<the_card("yellow", "skip", 2), the_card("yellow", "+2", 1),
                     the_card("red", "+2", 1), the_card("green", "+2", 2),
                     the_card("green", "skip", 2), the_card("red", "skip", 2),
                     the_card("blue", "skip", 2)>>),
        card_at(15, the_card("yellow", "7", 1))>>))

\* As deck_A; player 0 ends on a wildcard, player 1 on a +2.
deck_B ==
    shuffled_deck(merge_all(<<
        hand_at(0, <<the_card("yellow", "skip", 1), the_card("green", "skip", 1),
                     the_card("green", "+2", 1), the_card("blue", "+2", 1),
                     the_card("blue", "skip", 1), the_card("red", "skip", 1),
                     the_card("black", "wildcard", 1)>>),
        hand_at(1, <<the_card("yellow", "skip", 2), the_card("yellow", "+2", 1),
                     the_card("red", "+2", 1), the_card("green", "+2", 2),
                     the_card("green", "skip", 2), the_card("red", "skip", 2),
                     the_card("red", "+2", 2)>>),
        card_at(15, the_card("yellow", "7", 1))>>))

\* As deck_A; player 0 ends on a Reverse, player 1 on a +4.
deck_C ==
    shuffled_deck(merge_all(<<
        hand_at(0, <<the_card("yellow", "skip", 1), the_card("green", "skip", 1),
                     the_card("green", "+2", 1), the_card("blue", "+2", 1),
                     the_card("blue", "skip", 1), the_card("red", "skip", 1),
                     the_card("red", "reverse", 1)>>),
        hand_at(1, <<the_card("yellow", "skip", 2), the_card("yellow", "+2", 1),
                     the_card("red", "+2", 1), the_card("green", "+2", 2),
                     the_card("green", "skip", 2), the_card("red", "skip", 2),
                     the_card("black", "+4", 1)>>),
        card_at(15, the_card("yellow", "7", 1))>>))

\* a hand of two given cards with five number cards of one colour between
ends_at(p, first, color, copy, last_card) ==
    hand_at(p, <<first, the_card(color, "1", copy), the_card(color, "2", copy),
                 the_card(color, "3", copy), the_card(color, "4", copy),
                 the_card(color, "5", copy), last_card>>)

\* the first eight cards a draw or a penalty takes (places 108 down to 101)
drawn_first ==
    [k \in 101..108 |->
        <<the_card("green", "6", 1), the_card("green", "7", 1),
          the_card("green", "8", 1), the_card("green", "9", 1),
          the_card("blue", "6", 1), the_card("blue", "7", 1),
          the_card("blue", "8", 1), the_card("blue", "9", 1)>>[k - 100]]

\* Two, three and four players holding Reverse, Skip, +2, wildcard and +4
\* cards at the two ends of their hands, with a red 0 as first current card.
deck_D ==
    shuffled_deck(merge_all(<<
        ends_at(0, the_card("red", "reverse", 1), "yellow", 1,
                   the_card("black", "wildcard", 1)),
        ends_at(1, the_card("red", "skip", 2), "green", 1,
                   the_card("red", "3", 1)),
        card_at(15, the_card("red", "0", 1)),
        drawn_first>>))

deck_E ==
    shuffled_deck(merge_all(<<
        ends_at(0, the_card("red", "reverse", 1), "yellow", 1,
                   the_card("red", "skip", 1)),
        ends_at(1, the_card("red", "skip", 2), "green", 1,
                   the_card("red", "reverse", 2)),
        ends_at(2, the_card("red", "+2", 1), "blue", 1,
                   the_card("black", "+4", 1)),
        card_at(22, the_card("red", "0", 1)),
        drawn_first>>))

deck_F ==
    shuffled_deck(merge_all(<<
        ends_at(0, the_card("red", "reverse", 1), "yellow", 1,
                   the_card("red", "skip", 1)),
        ends_at(1, the_card("red", "skip", 2), "green", 1,
                   the_card("red", "reverse", 2)),
        ends_at(2, the_card("red", "+2", 1), "blue", 1,
                   the_card("black", "+4", 1)),
        ends_at(3, the_card("red", "+2", 2), "yellow", 2,
                   the_card("black", "+4", 2)),
        card_at(29, the_card("red", "0", 1)),
        drawn_first>>))

\* Fifteen players, which leaves three cards in the deck; players 0 and 1
\* hold a +4 as their first card.
deck_G ==
    shuffled_deck(merge_all(<<
        card_at(1, the_card("black", "+4", 1)),
        card_at(8, the_card("black", "+4", 2))>>))

\* Two players who shed their hands card by card in turn, each card playable
\* on the one before by its colour or by its number: red 0 is the first
\* current card, then red 1, red 2, yellow 2, yellow 3, green 3, green 4,
\* blue 4, blue 5, red 5, red 6, yellow 6, yellow 7, green 7, green 8.  The
\* first two cards a draw takes are the blue 9s.
deck_L ==
    shuffled_deck(merge_all(<<
        hand_at(0, <<the_card("red", "1", 1), the_card("yellow", "2", 1),
                     the_card("green", "3", 1), the_card("blue", "4", 1),
                     the_card("red", "5", 1), the_card("yellow", "6", 1),
                     the_card("green", "7", 1)>>),
        hand_at(1, <<the_card("red", "2", 1), the_card("yellow", "3", 1),
                     the_card("green", "4", 1), the_card("blue", "5", 1),
                     the_card("red", "6", 1), the_card("yellow", "7", 1),
                     the_card("green", "8", 1)>>),
        card_at(15, the_card("red", "0", 1)),
        card_at(107, the_card("blue", "9", 2)),
        card_at(108, the_card("blue", "9", 1))>>))

LongGames == {[players |-> 2, deck |-> deck_L]}

\* The games the model starts from: the player count and the deck that
\* _create_deck returned.
Games ==
    {[players |-> 15, deck |-> unshuffled_deck],
     [players |-> 2, deck |-> deck_A],
     [players |-> 2, deck |-> deck_B],
     [players |-> 2, deck |-> deck_C],
     [players |-> 2, deck |-> deck_D],
     [players |-> 3, deck |-> deck_E],
     [players |-> 4, deck |-> deck_F],
     [players |-> 15, deck |-> deck_G]}

NoCall == [player |-> None, card |-> None, new_color |-> NoColor,
           result |-> "new", played |-> None]

InitFrom(games) ==
    \E g \in games :
        /\ players_ok(g.players)
        /\ players = g.players
        /\ hands = [p \in 0..(g.players - 1) |-> deal_hand(g.deck, p)]
        /\ deck = deal_rest(g.deck, g.players)
        /\ _reverse = FALSE
        /\ _pos = cycle_next(None, FALSE, g.players)
        /\ _current_player = cycle_next(None, FALSE, g.players)
        /\ _winner = None
        /\ temp_color = [c \in {} |-> NoColor]
        /\ plays = 0
        /\ draws = 0
        /\ last = NoCall

Init == InitFrom(Games)

----------------------------------------------------------------------------
\* UnoGame.play (lines 254-314).

\* The game as a record, so that play can be written as the function from
\* the game and the arguments to the game it leaves and the way it ended.
Game == [deck |-> deck, hands |-> hands, pos |-> _pos, rev |-> _reverse,
         cur |-> _current_player, winner |-> _winner, tc |-> temp_color,
         result |-> "ok", played |-> None]

\* self.current_card.temp_color = new_color (line 298)
set_temp_color(tc, c, new_color) ==
    [x \in (DOMAIN tc) \cup {c} |-> IF x = c THEN new_color ELSE tc[x]]

\* lines 273-276: the player picks up one card and the turn passes
play_draw(player) ==
    IF ~pick_up_ok(deck, 1)
    THEN [Game EXCEPT !.deck = pick_up_deck(deck, 1),
                      !.result = "IndexError:pick_up"]
    ELSE LET p1 == cycle_next(_pos, _reverse, players)
         IN  [Game EXCEPT !.deck = pick_up_deck(deck, 1),
                          !.hands[player] = pick_up_hand(@, deck, 1),
                          !.pos = p1,
                          !.cur = p1]

\* lines 292-314: the card leaves the hand, its effect is resolved, and the
\* turn passes or the winner is set
play_card(player, card, new_color) ==
    LET _card == hands[player][index_of(hands[player], card)]
        hands1 == [hands EXCEPT ![player] = hand_pop(@, card)]
        deck1 == Append(deck, _card)
        card_color == CardColor(_card)
        card_type == CardType(_card)
        tc1 == IF card_color = "black"
               THEN set_temp_color(temp_color, _card, new_color)
               ELSE temp_color
        rev1 == IF card_color # "black" /\ card_type = "reverse"
                THEN cycle_reverse(_reverse) ELSE _reverse
        pos1 == IF effect_advances(card_type)
                THEN cycle_next(_pos, rev1, players) ELSE _pos
        n == penalty(card_type)
        deck2 == pick_up_deck(deck1, n)
        hands2 == [hands1 EXCEPT ![pos1] = pick_up_hand(@, deck1, n)]
    IN  IF ~pick_up_ok(deck1, n)
        THEN [Game EXCEPT !.deck = deck2, !.hands = hands1, !.tc = tc1,
                          !.pos = pos1, !.cur = pos1, !.played = _card,
                          !.result = "IndexError:pick_up"]
        ELSE IF is_active(hands2)
        THEN LET pos2 == cycle_next(pos1, rev1, players)
             IN  [Game EXCEPT !.deck = deck2, !.hands = hands2, !.tc = tc1,
                              !.rev = rev1, !.pos = pos2, !.cur = pos2,
                              !.played = _card]
        ELSE [Game EXCEPT !.deck = deck2, !.hands = hands2, !.tc = tc1,
                          !.rev = rev1, !.pos = pos1, !.cur = pos1,
                          !.winner = player, !.played = _card]

\* lines 266-290: the checks, in the order of the code
play_outcome(player, card, new_color) ==
    IF ~(0 <= player /\ player < players)
    THEN [Game EXCEPT !.result = "ValueError:player"]
    ELSE IF _current_player # player
    THEN [Game EXCEPT !.result = "ValueError:turn"]
    ELSE IF card = None
    THEN play_draw(player)
    ELSE IF ~index_ok(hands[player], card)
    THEN [Game EXCEPT !.result = "IndexError:card"]
    ELSE IF Len(deck) = 0
    THEN [Game EXCEPT !.result = "IndexError:deck"]
    ELSE IF ~playable(current_card(deck),
                      hands[player][index_of(hands[player], card)])
    THEN [Game EXCEPT !.result = "ValueError:playable"]
    ELSE IF /\ CardColor(hands[player][index_of(hands[player], card)]) = "black"
            /\ ~color_ok(new_color)
    THEN [Game EXCEPT !.result = "ValueError:color"]
    ELSE IF ~is_active(hands)
    THEN [Game EXCEPT !.result = "ValueError:over"]
    ELSE play_card(player, card, new_color)

\* The calls the model makes.  The current player draws (card None), plays
\* the first or the last card of the hand with one of two colours or with
\* no colour (which line 285 treats like any value outside COLORS), or names
\* a card index no hand reaches.
\* Another player (the next one of the cycle, or an index just outside the
\* valid range) draws or plays the first card.
ColorArgs == {"red", "blue", NoColor}
OtherPlayers == {(_current_player + 1) % players, -1, players}
Calls ==
    ({_current_player} \X {None} \X {NoColor})
    \cup ({_current_player} \X {0, -1} \X ColorArgs)
    \cup ({_current_player} \X {120, -120} \X {NoColor})
    \cup (OtherPlayers \X {None, 0} \X {NoColor})

play_within(player, card, new_color, max_plays, max_draws) ==
    LET o == play_outcome(player, card, new_color)
        played == o.played # None
        drawn == o.played = None /\ o.deck # deck
    IN  /\ played => plays < max_plays
        /\ drawn => draws < max_draws
        /\ deck' = o.deck
        /\ hands' = o.hands
        /\ _pos' = o.pos
        /\ _reverse' = o.rev
        /\ _current_player' = o.cur
        /\ _winner' = o.winner
        /\ temp_color' = o.tc
        /\ plays' = IF played THEN plays + 1 ELSE plays
        /\ draws' = IF drawn THEN draws + 1 ELSE draws
        /\ last' = [player |-> player, card |-> card, new_color |-> new_color,
                    result |-> o.result, played |-> o.played]
        /\ UNCHANGED players

play(player, card, new_color) ==
    play_within(player, card, new_color, MaxPlays, MaxDraws)

Next == \E c \in Calls : play(c[1], c[2], c[3])

Spec == Init /\ [][Next]_vars

----------------------------------------------------------------------------
\* The long game: the same calls of play, from the game of deck_L, followed
\* until both players have played their 7 cards.

InitLong == InitFrom(LongGames)

play_long(player, card, new_color) ==
    play_within(player, card, new_color, MaxPlaysLong, MaxDrawsLong)

NextLong == \E c \in Calls : play_long(c[1], c[2], c[3])

SpecLong == InitLong /\ [][NextLong]_vars

----------------------------------------------------------------------------
\* The construction on its own (lines 197-208): UnoGame(players) for the
\* player counts of PlayerCounts and the decks of Decks, each call starting
\* from no game.  The player counts are integers, so the test of line 198
\* passes.  last is the call: the player count it was given and how it ended.

PlayerCounts == (2 - MaxOutside)..(15 + MaxOutside)
Decks == {g.deck : g \in Games}

\* the variables while there is no game
NoGame == [players |-> None, deck |-> <<>>, hands |-> <<>>, pos |-> None,
           rev |-> FALSE, cur |-> None, winner |-> None]

\* __init__ (lines 197-208) with dk the deck _create_deck returns
new_game(n, dk) ==
    IF ~players_ok(n)
    THEN [game |-> NoGame, result |-> "ValueError:players"]
    ELSE [game |-> [players |-> n,
                    deck |-> deal_rest(dk, n),
                    hands |-> [p \in 0..(n - 1) |-> deal_hand(dk, p)],
                    pos |-> cycle_next(None, FALSE, n),
                    rev |-> FALSE,
                    cur |-> cycle_next(None, FALSE, n),
                    winner |-> None],
          result |-> "ok"]

InitNew ==
    /\ players = NoGame.players
    /\ deck = NoGame.deck
    /\ hands = NoGame.hands
    /\ _pos = NoGame.pos
    /\ _reverse = NoGame.rev
    /\ _current_player = NoGame.cur
    /\ _winner = NoGame.winner
    /\ temp_color = [c \in {} |-> NoColor]
    /\ plays = 0
    /\ draws = 0
    /\ last = [op |-> "none", players |-> None, result |-> "none"]

new(n, dk) ==
    LET o == new_game(n, dk)
    IN  /\ players' = o.game.players
        /\ deck' = o.game.deck
        /\ hands' = o.game.hands
        /\ _pos' = o.game.pos
        /\ _reverse' = o.game.rev
        /\ _current_player' = o.game.cur
        /\ _winner' = o.game.winner
        /\ last' = [op |-> "new", players |-> n, result |-> o.result]
        /\ UNCHANGED <<temp_color, plays, draws>>

NextNew == \E n \in PlayerCounts, dk \in Decks : new(n, dk)

SpecNew == InitNew /\ [][NextNew]_vars

----------------------------------------------------------------------------
\* A ReversibleCycle on its own (lines 360-388), as the docstring of lines
\* 338-358 uses it: built over 1..MaxItems items, then called for its next
\* item and reversed in any order.  players is the number of items, an item is
\* named by its index, and last is the last call with the calls made so far:
\* nexts counts the calls of next(), early the calls of reverse() made before
\* the first next() and late those made after it.  The variables of the game
\* are not used.

NewCycle == [op |-> "new", item |-> None, nexts |-> 0, early |-> 0, late |-> 0]

\* __init__ (lines 360-363)
InitCycle ==
    /\ players \in 1..MaxItems
    /\ _pos = None
    /\ _reverse = FALSE
    /\ last = NewCycle
    /\ deck = <<>>
    /\ hands = <<>>
    /\ _current_player = None
    /\ _winner = None
    /\ temp_color = [c \in {} |-> NoColor]
    /\ plays = 0
    /\ draws = 0

\* next(cycle): __next__ (lines 365-370) sets the position and returns the
\* item at it
do_next ==
    /\ last.nexts < MaxNexts
    /\ _pos' = cycle_next(_pos, _reverse, players)
    /\ last' = [last EXCEPT !.op = "next",
                            !.item = cycle_next(_pos, _reverse, players),
                            !.nexts = @ + 1]
    /\ UNCHANGED <<players, _reverse, deck, hands, _current_player, _winner,
                   temp_color, plays, draws>>

\* cycle.reverse() (lines 384-388)
do_reverse ==
    /\ last.early + last.late < MaxReverses
    /\ _reverse' = cycle_reverse(_reverse)
    /\ last' = [last EXCEPT !.op = "reverse",
                            !.item = None,
                            !.early = IF last.nexts = 0 THEN @ + 1 ELSE @,
                            !.late = IF last.nexts = 0 THEN @ ELSE @ + 1]
    /\ UNCHANGED <<players, _pos, deck, hands, _current_player, _winner,
                   temp_color, plays, draws>>

NextCycle == do_next \/ do_reverse

SpecCycle == InitCycle /\ [][NextCycle]_vars

----------------------------------------------------------------------------
\* What the properties below speak of.

GameVars == <<deck, hands, _pos, _reverse, _current_player, _winner, temp_color>>

RECURSIVE hand_sizes(_)
hand_sizes(n) == IF n = 0 THEN 0 ELSE Len(hands[n - 1]) + hand_sizes(n - 1)

\* the cards of the deck and of the hands, and how many places they fill
cards_held == Range(deck) \cup UNION {Range(hands[p]) : p \in DOMAIN hands}
cards_count == Len(deck) + hand_sizes(players)

\* the player k steps from p in the direction rev
step_from(p, rev, k) == (p + (IF rev THEN -k ELSE k)) % players

\* the colour in effect of a card: the colour chosen when it was played, for
\* a card that carries one, and its own colour otherwise
color_in_effect(tc, c) == IF c \in DOMAIN tc THEN tc[c] ELSE CardColor(c)

\* the last call named a card of the hand of the player whose turn it was,
\* by an index Python accepts; selected is that card
Selects(call, hs, cur) ==
    /\ call.player = cur
    /\ call.card # None
    /\ index_ok(hs[cur], call.card)
selected(call, hs) == hs[call.player][index_of(hs[call.player], call.card)]

\* the last call was accepted as a card play and ran to its end
Played(call) == call.result = "ok" /\ call.played # None
PlayedType(call, t) == Played(call) /\ CardType(call.played) = t

----------------------------------------------------------------------------
\* C1: in every reachable state the cards of the deck and of the hands are
\* exactly the 108 cards built at construction, each held once.
C1_CardConservation ==
    /\ cards_held = Cards
    /\ cards_count = 108

\* C2: once a winner is set, every later play call (a card play or a draw
\* move, for any player) is rejected and leaves the winner, the current
\* player, the hands and the deck unchanged.
C2_FinishedIsTerminal ==
    [][_winner # None =>
          /\ last'.result # "ok"
          /\ UNCHANGED <<_winner, _current_player, hands, deck>>]_vars

C4_PlayableIffColorInEffect ==
    deck # <<>> =>
        \A c \in Cards :
            playable(current_card(deck), c) <=>
                \/ color_in_effect(temp_color, current_card(deck)) = CardColor(c)
                \/ CardType(current_card(deck)) = CardType(c)
                \/ CardColor(c) = "black"

\* C5: a play call for a player who is not the current player, or with a card
\* index outside 0..(hand size - 1), is rejected and leaves the deck, the
\* hands, the cycle's position and direction and the current card unchanged.
C5_InvalidCallRejected ==
    [][(\/ last'.player # _current_player
        \/ /\ last'.card # None
           /\ ~(0 <= last'.card /\ last'.card < Len(hands[_current_player]))) =>
          /\ last'.result # "ok"
          /\ UNCHANGED <<deck, hands, _pos, _reverse, temp_color>>]_vars

\* C6: every card a play call moves onto the deck was playable on the card
\* that was the current card before the call, and a call that names a card
\* not playable on the current card is rejected with the game unchanged.
C6_OnlyPlayableCardsPlayed ==
    [][/\ last'.played # None =>
            /\ deck # <<>>
            /\ \/ CardColor(current_card(deck)) = CardColor(last'.played)
               \/ CardType(current_card(deck)) = CardType(last'.played)
               \/ CardColor(last'.played) = "black"
       /\ (/\ Selects(last', hands, _current_player)
           /\ deck # <<>>
           /\ CardColor(current_card(deck)) # CardColor(selected(last', hands))
           /\ CardType(current_card(deck)) # CardType(selected(last', hands))
           /\ CardColor(selected(last', hands)) # "black") =>
            /\ last'.result = "ValueError:playable"
            /\ UNCHANGED GameVars]_vars

C6_Witness ==
    /\ last.result = "ValueError:playable"
    /\ plays > 0

\* C7: when the current player plays a black card with no colour, or with a
\* colour that is not red, yellow, green or blue, the call is rejected, the
\* card stays in the hand and the game is unchanged.
C7_BlackNeedsColor ==
    [][(/\ Selects(last', hands, _current_player)
        /\ CardColor(selected(last', hands)) = "black"
        /\ last'.new_color \notin {"red", "yellow", "green", "blue"}) =>
          /\ last'.result # "ok"
          /\ last'.played = None
          /\ UNCHANGED GameVars]_vars

C7_Witness ==
    /\ last.result = "ValueError:color"
    /\ last.card # None
    /\ CardColor(selected(last, hands)) = "black"

C10_WildDrawFour ==
    [][(PlayedType(last', "+4") /\ hands'[last'.player] # <<>>) =>
          LET p == _current_player
              v == step_from(p, _reverse, 1)
          IN  /\ deck' # <<>>
              /\ color_in_effect(temp_color', current_card(deck')) = last'.new_color
              /\ Len(hands'[v]) = Len(hands[v]) + 4
              /\ _current_player' = step_from(p, _reverse, 2)]_vars

DrawMove(call, cur) == call.player = cur /\ call.card = None

\* C12: a draw move of the current player in a game in progress gives that
\* player exactly the card at the draw end of the deck and passes the turn
\* one step on; the current card, the direction, the other hands and the
\* winner are unchanged.
C12_DrawMoveFrame ==
    [][(/\ DrawMove(last', _current_player)
        /\ _winner = None
        /\ is_active(hands)) =>
          LET p == _current_player
          IN  /\ last'.result = "ok"
              /\ deck # <<>>
              /\ hands'[p] = Append(hands[p], deck[1])
              /\ deck' = Tail(deck)
              /\ deck' # <<>>
              /\ current_card(deck') = current_card(deck)
              /\ _current_player' = step_from(p, _reverse, 1)
              /\ _reverse' = _reverse
              /\ \A q \in DOMAIN hands : q # p => hands'[q] = hands[q]
              /\ _winner' = _winner]_vars

\* C13: on a cycle of n items that was never reversed the k-th call of next
\* returns item (k - 1) mod n; on a cycle reversed once, before the first
\* call of next, the k-th call returns item (n - k) mod n; and the position,
\* once set, is one of 0..n-1 and is the item returned.
C13_CycleOrder ==
    /\ (last.op = "next" /\ last.early = 0 /\ last.late = 0) =>
            last.item = (last.nexts - 1) % players
    /\ (last.op = "next" /\ last.early = 1 /\ last.late = 0) =>
            last.item = (players - last.nexts) % players
    /\ last.op = "next" => _pos = last.item
    /\ last.nexts > 0 => _pos \in 0..(players - 1)

C13_Witness ==
    /\ players = 3
    /\ last.op = "next"
    /\ last.early = 1
    /\ last.late = 0
    /\ last.nexts = 4
    /\ last.item = 2

\* C14: reverse() toggles the direction and leaves the position as it was;
\* once next has been called and the position is p, a call of next that
\* follows a reverse() returns item (p - 1) mod n if the direction before the
\* reverse() was forward and (p + 1) mod n if it was backward.
C14_ReverseThenNext ==
    [][/\ last'.op = "reverse" =>
            /\ _reverse' = ~_reverse
            /\ _pos' = _pos
       /\ (last.op = "reverse" /\ last.nexts > 0 /\ last'.op = "next") =>
            last'.item = IF _reverse
                         THEN (_pos - 1) % players
                         ELSE (_pos + 1) % players]_vars

\* the example of lines 338-358: 0, 1, reverse, 0, and on: 2
C14_Witness ==
    /\ players = 3
    /\ last.op = "next"
    /\ last.nexts = 4
    /\ last.early = 0
    /\ last.late = 1
    /\ _reverse
    /\ last.item = 2

C16_DeckNonEmpty == Len(deck) > 0

\* the call failed while picking up cards
DeckExhausted(call) == call.result = "IndexError:pick_up"

\* C17: in every reachable state is_active is false exactly when a winner is
\* set, and when a winner is set the hand of the winner is empty and every
\* other hand is non-empty.
C17_ActiveIffNoWinner ==
    /\ ~is_active(hands) <=> _winner # None
    /\ _winner # None =>
            /\ hands[_winner] = <<>>
            /\ \A q \in DOMAIN hands : q # _winner => hands[q] # <<>>

\* C18: a play call that fails because the deck holds fewer cards than the
\* draw move or the penalty needs leaves the deck, the hands, the turn cycle
\* and the current card unchanged.
C18_DeckExhaustedUnchanged ==
    [][DeckExhausted(last') =>
          UNCHANGED <<deck, hands, _pos, _reverse, _current_player>>]_vars

\* C19: after an accepted card play the colour in effect of the current card
\* is the colour chosen, for a black card, and the colour of the card played
\* otherwise; a draw move leaves it as it was; and while the current card is a
\* wildcard played with colour c, a non-black card named by the current
\* player is accepted if its colour is c and rejected if it is not.
C19_ColorInEffect ==
    [][/\ (Played(last') /\ deck' # <<>>) =>
            color_in_effect(temp_color', current_card(deck')) =
                IF CardColor(last'.played) = "black"
                THEN last'.new_color
                ELSE CardColor(last'.played)
       /\ (DrawMove(last', _current_player) /\ deck # <<>> /\ deck' # <<>>) =>
            color_in_effect(temp_color', current_card(deck')) =
                color_in_effect(temp_color, current_card(deck))
       /\ (/\ deck # <<>>
           /\ CardType(current_card(deck)) = "wildcard"
           /\ is_active(hands)
           /\ Selects(last', hands, _current_player)
           /\ CardColor(selected(last', hands)) # "black") =>
            (last'.result = "ok" <=>
                CardColor(selected(last', hands)) =
                    color_in_effect(temp_color, current_card(deck)))]_vars

\* the players whose hand is empty
empty_handed == {p \in DOMAIN hands : hands[p] = <<>>}

\* C20: in every reachable state at most one player has an empty hand.
C20_OneEmptyHand == Cardinality(empty_handed) <= 1

\* player 0 has shed 7 cards and drawn one, and player 1 sheds the last card
C20_Witness ==
    /\ plays = 14
    /\ draws = 1
    /\ Played(last)
    /\ last.player = 1
    /\ empty_handed = {1}
    /\ _winner = 1
    /\ Len(hands[0]) = 1

====
